---- MODULE Spec2Model ----
(***************************************************************************)
(* ncc-zip: one invocation of src/cli.js, from runCmd(argv) to the exit of *)
(* the process (direct command) or the settling of the promise runCmd      *)
(* returns (API mode).                                                     *)
(*                                                                         *)
(* Every callback of the program is one action: the body of runCmd up to   *)
(* the bundler call, the handler up to its await, the continuation after   *)
(* the output stream closes, the exit listener, the top-level then/catch.  *)
(* Macrotasks (stream events, child exit, signals, the folder-size         *)
(* callback) wait for pending promise reactions, as Node's event loop      *)
(* makes them.                                                             *)
(***************************************************************************)
EXTENDS Integers, Sequences, FiniteSets, TLC

\* ------------------------------------------------------------------ bounds
MaxAssets == 2
MaxCodeLen == 2
MaxSymlinks == 1
MaxExtraArgs == 1
MaxExitCode == 2
MaxQuarterKb == 6
MaxSummaryAssets == 2

\* ------------------------------------------------------- JavaScript values
\* An optional value: <<>> is undefined, <<x>> is x.
Undefined == <<>>
Some(x) == <<x>>

\* The values exit(code) receives and process.exit(code) is given.
JsUndefined == [t |-> "undefined", n |-> 0, s |-> ""]
JsNull == [t |-> "null", n |-> 0, s |-> ""]
Num(n) == [t |-> "number", n |-> n, s |-> ""]
Str(s) == [t |-> "string", n |-> 0, s |-> s]

\* ------------------------------------------------------------------- paths
\* A path is a sequence of components, a component a sequence of strings.
Cwd == << <<"cwd">> >>
Rel(component) == Cwd \o <<component>>
Dist == Rel(<<"dist">>)
CacheDir == << <<"ncc-cache-dir">> >>
EmptyPath == Rel(<<"">>)
DefaultArchive == Rel(<<"dist.zip">>)

IsPrefix(p, q) == Len(p) <= Len(q) /\ SubSeq(q, 1, Len(p)) = p

existsSync(files, p) == p \in files

rimrafSync(files, p) == {q \in files : ~IsPrefix(p, q)}

mkdirpSync(files, p) == files \cup {SubSeq(p, 1, n) : n \in 2..Len(p)}

writeFileSync(files, p) == files \cup {p}

\* os.tmpdir()/md5(resolve(entry)): one directory per entry path.
Workspace(entry) == << <<"tmpdir">>, <<"md5", entry>> >>

\* ------------------------------------------------------ names and patterns
RECURSIVE minimatch(_, _)
minimatch(name, pattern) ==
  IF pattern = <<>> THEN name = <<>>
  ELSE IF Head(pattern) = "*"
    THEN minimatch(name, Tail(pattern))
         \/ (name # <<>> /\ minimatch(Tail(name), pattern))
    ELSE name # <<>> /\ Head(name) = Head(pattern)
         /\ minimatch(Tail(name), Tail(pattern))

AssetNames == {<<"a">>, <<"a", "b">>, <<"L">>}
Patterns == {<<"*", "b">>, <<"L">>}
CodeChars == {"#", "!"}

\* ./utils/shebang: the code begins with an interpreter directive, #!
shebangRegEx(code) == Len(code) >= 2 /\ code[1] = "#" /\ code[2] = "!"

\* ------------------------------------------------------------ config files
\* A JSON file as the program reads it: its license key and its ncc key. A
\* config is what the bundler is given: the license and quiet keys.
EmptyConfig == [license |-> Undefined, quiet |-> Undefined]
EmptyJson == [license |-> Undefined, ncc |-> Undefined]

MissingFile == [state |-> "missing", json |-> EmptyJson]
UnparsableFile == [state |-> "unparsable", json |-> EmptyJson]
JsonFile(json) == [state |-> "ok", json |-> json]

lookupConfig(files, pathToFile) ==
  IF files[pathToFile].state = "missing" THEN [r |-> "null", v |-> EmptyJson]
  ELSE IF files[pathToFile].state = "unparsable"
    THEN [r |-> "false", v |-> EmptyJson]
    ELSE [r |-> "object", v |-> files[pathToFile].json]

\* getConfig with package.json looked up ahead of ncc.config.json.
getConfigManifestFirst(files, configPath) ==
  IF configPath # Undefined
  THEN LET config == lookupConfig(files, configPath[1])
       IN IF config.r = "null"
          THEN [error |-> "Could not find config", config |-> EmptyConfig]
          ELSE IF config.r = "false"
            THEN [error |-> "Error parsing config", config |-> EmptyConfig]
            ELSE [error |-> "",
                  config |-> [license |-> config.v.license, quiet |-> Undefined]]
  ELSE LET config == lookupConfig(files, "ncc.config.json")
           packageJson == lookupConfig(files, "package.json")
       IN IF packageJson.r = "object" /\ packageJson.v.ncc # Undefined
          THEN [error |-> "", config |-> packageJson.v.ncc[1]]
          ELSE IF config.r = "object"
            THEN [error |-> "",
                  config |-> [license |-> config.v.license, quiet |-> Undefined]]
            ELSE [error |-> "", config |-> EmptyConfig]

getConfig(files, configPath) ==
  IF configPath # Undefined
  THEN LET config == lookupConfig(files, configPath[1])
       IN IF config.r = "null"
          THEN [error |-> "Could not find config", config |-> EmptyConfig]
          ELSE IF config.r = "false"
            THEN [error |-> "Error parsing config", config |-> EmptyConfig]
            ELSE [error |-> "",
                  config |-> [license |-> config.v.license, quiet |-> Undefined]]
  ELSE LET config == lookupConfig(files, "ncc.config.json")
           packageJson == lookupConfig(files, "package.json")
       IN IF config.r = "object"
          THEN [error |-> "",
                config |-> [license |-> config.v.license, quiet |-> Undefined]]
          ELSE IF packageJson.r = "object" /\ packageJson.v.ncc # Undefined
            THEN [error |-> "", config |-> packageJson.v.ncc[1]]
            ELSE [error |-> "", config |-> EmptyConfig]

\* ------------------------------------------------------------ command line
Commands == {"build", "run", "cache", "help", "version", "deploy"}
SecondArgs == {"e.js", "clean", "dir", "size"}

RECURSIVE Extras(_)
Extras(k) == IF k = 0 THEN <<>> ELSE <<"x">> \o Extras(k - 1)

Positionals ==
  {<<>>} \cup {<<c>> : c \in Commands}
  \cup {<<c, a>> \o Extras(k) : c \in Commands, a \in SecondArgs, k \in 0..MaxExtraArgs}

\* The files require.resolve finds: the project holds e.js and e.cjs, and the
\* working directory itself is no module.
EntryFiles == {"e.js", "e.cjs"}
CjsFiles == {"e.cjs"}

requireResolve(path) == path \in EntryFiles

Ext(buildFile) == IF buildFile \in CjsFiles THEN ".cjs" ELSE ".js"

\* The keys of args that start with "--".
Flags(argv) ==
  {f \in {"--out", "--license", "--ignore", "--quiet", "--stats-out", "--filename"} :
     \/ f = "--out" /\ argv.out # Undefined
     \/ f = "--license" /\ argv.license # Undefined
     \/ f = "--ignore" /\ argv.ignore # Undefined
     \/ f = "--quiet" /\ argv.quiet # Undefined
     \/ f = "--stats-out" /\ argv.statsOut # Undefined
     \/ f = "--filename" /\ argv.filename # Undefined}

\* arg() with permissive: false throws "Unknown or unexpected option" on an
\* option its schema does not hold, and --watch is none of the schema's
\* options; runCmd turns that throw into nccError(..., 2).
ArgThrows(argv) == argv.watch

\* if (args["--out"]): the empty string is falsy.
OutGiven(argv) == argv.out # Undefined /\ argv.out[1] # ""

\* Where runCmd's switch ends for argv, before any file is resolved.
Dispatch(argv) ==
  LET pos == argv.pos IN
  IF ArgThrows(argv) THEN "usage"
  ELSE IF Len(pos) = 0 THEN "usage"
  ELSE IF pos[1] = "cache" THEN
    IF Len(pos) > 2 THEN "usage"
    ELSE IF Flags(argv) # {} THEN "usage"
    ELSE IF Len(pos) = 2 /\ pos[2] \in {"clean", "dir", "size"} THEN pos[2]
    ELSE "usage"
  ELSE IF pos[1] = "run" THEN
    IF Len(pos) > 2 THEN "usage"
    ELSE IF OutGiven(argv) THEN "usage"
    ELSE "run"
  ELSE IF pos[1] = "build" THEN
    IF Len(pos) > 2 THEN "usage" ELSE "build"
  ELSE IF pos[1] = "help" THEN "usage"
  ELSE IF pos[1] = "version" THEN "version"
  ELSE "usage"

\* ------------------------------------------------------------------ inputs
SeqsUpTo(S, n) == UNION {[1..k -> S] : k \in 0..n}

Injective(s) == \A i, j \in 1..Len(s) : s[i] = s[j] => i = j

\* What the bundler hands to the handler: the code, whether there is a source
\* map, the asset names in Object.keys order, their permissions, and the
\* number of symlinks.
Results ==
  [code : SeqsUpTo(CodeChars, MaxCodeLen), map : BOOLEAN,
   assets : {s \in SeqsUpTo(AssetNames, MaxAssets) : Injective(s)},
   permissions : {420}, symlinks : 0..MaxSymlinks]

DefaultResult ==
  [code |-> <<"#", "!">>, map |-> TRUE, assets |-> << <<"a">> >>,
   permissions |-> 420, symlinks |-> 0]

LinkedResult ==
  [code |-> <<>>, map |-> FALSE, assets |-> << <<"L">>, <<"a", "b">> >>,
   permissions |-> 420, symlinks |-> 1]

IgnoreSets == {Undefined} \cup {Some(S) : S \in (SUBSET Patterns) \ {{}}}

NoConfigFiles ==
  [f \in {"ncc.config.json", "package.json"} |-> MissingFile]
LicenseInConfigFile ==
  [f \in {"ncc.config.json", "package.json"} |->
     IF f = "ncc.config.json"
     THEN JsonFile([license |-> Some(<<"a">>), ncc |-> Undefined])
     ELSE MissingFile]

IndexJs == <<"index", ".js">>
StaleWorkspace == {Workspace("e.js"), Workspace("e.js") \o <<IndexJs>>}
EarlierDist == {Dist, Dist \o <<IndexJs>>}

\* The invocations explored. Each family varies what one part of the program
\* reads and holds the rest at one value.
DispatchInputs ==
  [api : BOOLEAN, fs : {{}, StaleWorkspace, {CacheDir}}, config : {NoConfigFiles},
   result : {DefaultResult},
   argv : [pos : Positionals, out : {Undefined, Some(""), Some("out.zip")},
           watch : BOOLEAN, license : {Undefined}, ignore : {Undefined},
           quiet : {Undefined, Some(TRUE)}, statsOut : {Undefined},
           filename : {Undefined}]]

AssemblyInputs ==
  [api : {TRUE}, fs : {{}}, config : {NoConfigFiles, LicenseInConfigFile},
   result : Results,
   argv : [pos : {<<"build", "e.js">>}, out : {Undefined}, watch : {FALSE},
           license : {Undefined, Some(<<"L">>)}, ignore : IgnoreSets,
           quiet : {Undefined}, statsOut : {Undefined}, filename : {Undefined}]]

RunInputs ==
  [api : BOOLEAN, fs : {{}, StaleWorkspace, EarlierDist}, config : {NoConfigFiles},
   result : {DefaultResult, LinkedResult},
   argv : [pos : {<<"run", "e.js">>}, out : {Undefined, Some("")}, watch : {FALSE},
           license : {Undefined}, ignore : {Undefined, Some({<<"L">>})},
           quiet : {Undefined}, statsOut : {Undefined}, filename : {Undefined}]]

OutputInputs ==
  [api : BOOLEAN, fs : {{}}, config : {NoConfigFiles},
   result : {DefaultResult, LinkedResult},
   argv : [pos : {<<"build", "e.js">>, <<"run", "e.js">>},
           out : {Undefined, Some("out.zip")}, watch : {FALSE},
           license : {Undefined}, ignore : {Undefined},
           quiet : {Undefined, Some(TRUE)},
           statsOut : {Undefined, Some("stats.json")},
           filename : {Undefined, Some("main")}]]

Inputs == DispatchInputs \cup AssemblyInputs \cup RunInputs \cup OutputInputs

\* ------------------------------------------------------------------- state
VARIABLES
  input,      \* api mode or direct command, the files at start, argv, the bundle
  pc,         \* where the invocation stands
  fs,         \* the paths that exist
  outDir,     \* runCmd's outDir
  run,        \* runCmd's run
  nccConfig,  \* the config the bundler is given
  nccInvoked, \* whether the bundler was called
  archive,    \* the calls made on the archive, in order
  archivePath,\* the path the output stream writes
  promise,    \* the promise runCmd returns
  process,    \* this process
  stdout, stderr,
  ps,         \* the forked child
  listeners,  \* the events exit is registered for
  cleanups,   \* calls of rimraf.sync(outDir) made by exit
  settles,    \* calls of resolve or reject made by exit
  sizePending \* whether get-folder-size still owes its callback

vars ==
  <<input, pc, fs, outDir, run, nccConfig, nccInvoked, archive, archivePath,
    promise, process, stdout, stderr, ps, listeners, cleanups, settles,
    sizePending>>

Pending ==
  [state |-> "pending", silent |-> FALSE, nccError |-> FALSE, exitCode |-> JsUndefined]
Resolved ==
  [state |-> "resolved", silent |-> FALSE, nccError |-> FALSE, exitCode |-> JsUndefined]
Rejected(silent, isNccError, exitCode) ==
  [state |-> "rejected", silent |-> silent, nccError |-> isNccError,
   exitCode |-> exitCode]

\* nccError(msg, exitCode)
nccError(exitCode) == Rejected(FALSE, TRUE, Num(exitCode))
\* any other throw
Thrown == Rejected(FALSE, FALSE, JsUndefined)

NoChild == [state |-> "none", path |-> <<>>, found |-> FALSE, exitCode |-> JsUndefined]

Init ==
  /\ input \in Inputs
  /\ pc = "start"
  /\ fs = input.fs
  /\ outDir = Undefined
  /\ run = FALSE
  /\ nccConfig = EmptyConfig
  /\ nccInvoked = FALSE
  /\ archive = <<>>
  /\ archivePath = <<>>
  /\ promise = Pending
  /\ process = [alive |-> TRUE, exitCode |-> 0, signal |-> ""]
  /\ stdout = <<>>
  /\ stderr = <<>>
  /\ ps = NoChild
  /\ listeners = {}
  /\ cleanups = 0
  /\ settles = 0
  /\ sizePending = FALSE

\* ------------------------------------------------------------------ runCmd
\* let outDir = args["--out"], as a path; the empty string stays falsy.
OutArg(argv) == IF argv.out = Undefined THEN Undefined ELSE Some(Rel(<<argv.out[1]>>))

Falsy(dir) == dir = Undefined \/ dir[1] = EmptyPath

\* Macrotasks run only when no reaction of the top-level then/catch is due.
EventLoopTurn ==
  process.alive /\ (input.api \/ promise.state = "pending")

\* runCmd(argv, stdout, stderr), up to its return.
RunCmd ==
  /\ pc = "start"
  /\ LET argv == input.argv
         d == Dispatch(argv)
         entry == IF Len(argv.pos) >= 2 THEN argv.pos[2] ELSE "."
         workspace == Workspace(entry)
         cfg == getConfig(input.config, Undefined)
         started == d \in {"build", "run"} /\ requireResolve(entry) /\ cfg.error = ""
     IN /\ fs' = IF d = "clean" THEN rimrafSync(fs, CacheDir)
                 ELSE IF d = "run" /\ existsSync(fs, workspace)
                   THEN rimrafSync(fs, workspace)
                   ELSE fs
        /\ outDir' = IF d = "run" THEN Some(workspace)
                     ELSE IF ArgThrows(argv) \/ Len(argv.pos) = 0 THEN Undefined
                     ELSE OutArg(argv)
        /\ run' = (d = "run")
        /\ nccConfig' =
             IF started
             THEN [license |-> IF argv.license # Undefined THEN argv.license
                               ELSE cfg.config.license,
                   quiet |-> IF argv.quiet # Undefined THEN argv.quiet
                             ELSE cfg.config.quiet]
             ELSE nccConfig
        /\ nccInvoked' = started
        /\ pc' = IF started THEN "bundling" ELSE "returned"
        /\ promise' = IF d = "usage" THEN nccError(2)
                      ELSE IF started THEN Pending
                      ELSE IF d \in {"build", "run"} THEN Thrown
                      ELSE Resolved
        /\ stdout' = IF d = "dir" THEN Append(stdout, "cacheDir")
                     ELSE IF d = "version" THEN Append(stdout, "version")
                     ELSE stdout
        /\ sizePending' = (d = "size")
  /\ UNCHANGED <<input, archive, archivePath, process, stderr, ps, listeners,
                 cleanups, settles>>

\* The callback of get-folder-size(cacheDir, ...).
FolderSizeCallback ==
  /\ sizePending
  /\ EventLoopTurn
  /\ sizePending' = FALSE
  /\ stdout' = Append(stdout, IF existsSync(fs, CacheDir) THEN "size.toFixed(2)MB"
                              ELSE "0MB")
  /\ UNCHANGED <<input, pc, fs, outDir, run, nccConfig, nccInvoked, archive,
                 archivePath, promise, process, stderr, ps, listeners, cleanups,
                 settles>>

\* The bundler fails: ncc.then(handler) rejects and the handler is not called.
BundlerRejects ==
  /\ pc = "bundling"
  /\ EventLoopTurn
  /\ pc' = "returned"
  /\ promise' = Thrown
  /\ UNCHANGED <<input, fs, outDir, run, nccConfig, nccInvoked, archive,
                 archivePath, process, stdout, stderr, ps, listeners, cleanups,
                 settles, sizePending>>

\* ----------------------------------------------------------------- handler
FileName(argv) == IF argv.filename # Undefined THEN argv.filename[1] ELSE "index"

IsLicense(argv, asset) == argv.license = Some(asset)

\* Packed with every() in place of some().
PackedUnlessAllMatch(ignorePatterns, asset) ==
  /\ ignorePatterns # Undefined
  /\ ~\A ignorePattern \in ignorePatterns[1] : minimatch(asset, ignorePattern)

\* The condition under which the loop appends an asset that is not the
\* license file.
Packed(ignorePatterns, asset) ==
  /\ ignorePatterns # Undefined
  /\ ~\E ignorePattern \in ignorePatterns[1] : minimatch(asset, ignorePattern)

\* CodeMode with the two modes exchanged.
CodeModeSwapped(code) == IF shebangRegEx(code) THEN 438 ELSE 511

CodeMode(code) == IF shebangRegEx(code) THEN 511 ELSE 438

CodeEntry(argv, ext, result) ==
  [op |-> "append", kind |-> "code", name |-> <<FileName(argv), ext>>,
   mode |-> CodeMode(result.code)]

AssetEntries(argv, result) ==
  LET Keep(asset) == ~IsLicense(argv, asset) /\ Packed(argv.ignore, asset)
      kept == SelectSeq(result.assets, Keep)
  IN [i \in 1..Len(kept) |->
        [op |-> "append", kind |-> "asset", name |-> kept[i],
         mode |-> result.permissions]]

SymlinkEntries(result) ==
  [i \in 1..result.symlinks |->
     [op |-> "symlink", kind |-> "symlink", name |-> <<"link", ToString(i)>>,
      mode |-> 0]]

Finalize == [op |-> "finalize", kind |-> "", name |-> <<>>, mode |-> 0]

\* ArchiveCalls with the asset loop ahead of the code entry.
ArchiveCallsAssetsFirst(argv, ext, result) ==
  AssetEntries(argv, result) \o <<CodeEntry(argv, ext, result)>>
    \o SymlinkEntries(result) \o <<Finalize>>

\* The calls the promise executor makes on the archive, in order.
ArchiveCalls(argv, ext, result) ==
  <<CodeEntry(argv, ext, result)>> \o AssetEntries(argv, result)
    \o SymlinkEntries(result) \o <<Finalize>>

\* The files the promise executor writes beside the archive.
SideFiles(argv, ext, dir, result) ==
  (IF result.map THEN {dir \o << <<"index", ext, ".map">> >>} ELSE {})
  \cup {dir \o <<result.assets[i]>> :
          i \in {j \in 1..Len(result.assets) : IsLicense(argv, result.assets[j])}}

\* handler(result), from its first line to the await of the stream's close.
\* It is called once, by ncc.then(handler), with a result that carries no err:
\* ncc.handler and ncc.rebuild are reached only under args["--watch"], a key
\* arg() never yields, since its schema has no such option.
Handler ==
  /\ pc = "bundling"
  /\ EventLoopTurn
  /\ LET argv == input.argv
         ext == Ext(argv.pos[2])
     IN /\ archivePath' = IF Falsy(outDir) THEN DefaultArchive ELSE outDir[1]
        /\ outDir' = Some(Dist)
        /\ fs' = mkdirpSync(fs, Dist) \cup SideFiles(argv, ext, Dist, input.result)
        /\ archive' = ArchiveCalls(argv, ext, input.result)
  /\ pc' = "assembling"
  /\ UNCHANGED <<input, run, nccConfig, nccInvoked, promise, process, stdout,
                 stderr, ps, listeners, cleanups, settles, sizePending>>

\* The rest of handler, once outputFile has emitted close.
OutputClose ==
  /\ pc = "assembling"
  /\ EventLoopTurn
  /\ \E nodeModulesDir \in BOOLEAN :
       LET argv == input.argv
           ext == Ext(argv.pos[2])
           entryFile == outDir[1] \o << <<"index", ext>> >>
           written == (fs \cup {archivePath})
                      \cup (IF argv.statsOut # Undefined
                            THEN {Rel(<<argv.statsOut[1]>>)} ELSE {})
       IN /\ nodeModulesDir => run
          /\ stdout' = IF argv.quiet = Undefined THEN Append(stdout, "summary")
                       ELSE stdout
          /\ fs' = IF run /\ nodeModulesDir
                   THEN written \cup {outDir[1] \o << <<"node_modules">> >>}
                   ELSE written
          /\ ps' = IF run
                   THEN [state |-> "running", path |-> entryFile,
                         found |-> existsSync(written, entryFile),
                         exitCode |-> JsUndefined]
                   ELSE ps
          /\ listeners' = IF run THEN {"exit", "SIGTERM", "SIGINT"} ELSE listeners
          /\ pc' = IF run THEN "running" ELSE "returned"
          /\ promise' = IF run THEN promise ELSE Resolved
  /\ UNCHANGED <<input, outDir, run, nccConfig, nccInvoked, archive, archivePath,
                 process, stderr, cleanups, settles, sizePending>>

\* OutputError with the summary written ahead of the rejection.
OutputErrorReports ==
  /\ pc = "assembling"
  /\ EventLoopTurn
  /\ pc' = "returned"
  /\ promise' = Thrown
  /\ stdout' = Append(stdout, "summary")
  /\ UNCHANGED <<input, fs, outDir, run, nccConfig, nccInvoked, archive,
                 archivePath, process, stderr, ps, listeners, cleanups,
                 settles, sizePending>>

\* outputFile emits error: the awaited promise rejects, and so does handler.
OutputError ==
  /\ pc = "assembling"
  /\ EventLoopTurn
  /\ pc' = "returned"
  /\ promise' = Thrown
  /\ UNCHANGED <<input, fs, outDir, run, nccConfig, nccInvoked, archive,
                 archivePath, process, stdout, stderr, ps, listeners, cleanups,
                 settles, sizePending>>

\* ---------------------------------------------------------- run supervisor
\* Settle with the rejection left unmarked.
SettleNotSilent(p, code) ==
  IF p.state # "pending" THEN p
  ELSE IF code = Num(0) THEN Resolved
  ELSE Rejected(FALSE, FALSE, code)

\* What a settled promise is left as by resolve() or reject(e): a promise
\* settles once.
Settle(p, code) ==
  IF p.state # "pending" THEN p
  ELSE IF code = Num(0) THEN Resolved
  ELSE Rejected(TRUE, FALSE, code)

\* The listeners exit(code) takes off.
Deregistered == {"SIGTERM", "SIGINT"}

\* function exit(code)
exit(code) ==
  /\ fs' = rimrafSync(fs, outDir[1])
  /\ cleanups' = cleanups + 1
  /\ promise' = Settle(promise, code)
  /\ settles' = settles + 1
  /\ listeners' = listeners \ Deregistered

\* The exit codes a child can end with: null when a signal killed it, and 1
\* when node finds no module at the forked path.
ChildExitCodes(found) ==
  IF found THEN {Num(n) : n \in 0..MaxExitCode} \cup {JsNull}
  ELSE {Num(1), JsNull}

\* ps emits exit.
ChildExit ==
  /\ ps.state = "running"
  /\ "exit" \in listeners
  /\ EventLoopTurn
  /\ \E code \in ChildExitCodes(ps.found) :
       /\ ps' = [ps EXCEPT !.state = "exited", !.exitCode = code]
       /\ exit(code)
  /\ UNCHANGED <<input, pc, outDir, run, nccConfig, nccInvoked, archive,
                 archivePath, process, stdout, stderr, sizePending>>

\* The process receives SIGINT or SIGTERM while or after the child runs: the
\* listener runs if there is one, and without one the signal ends the process.
Signal ==
  /\ ps.state # "none"
  /\ EventLoopTurn
  /\ \E sig \in {"SIGINT", "SIGTERM"} :
       IF sig \in listeners
       THEN exit(Str(sig)) /\ UNCHANGED process
       ELSE /\ process' = [alive |-> FALSE, exitCode |-> 0, signal |-> sig]
            /\ UNCHANGED <<fs, cleanups, promise, settles, listeners>>
  /\ UNCHANGED <<input, pc, outDir, run, nccConfig, nccInvoked, archive,
                 archivePath, stdout, stderr, ps, sizePending>>

\* --------------------------------------------------------------- top level
\* .then((watching) => { if (!watching) process.exit(); })
MainThen ==
  /\ ~input.api
  /\ process.alive
  /\ promise.state = "resolved"
  /\ process' = [alive |-> FALSE, exitCode |-> 0, signal |-> ""]
  /\ UNCHANGED <<input, pc, fs, outDir, run, nccConfig, nccInvoked, archive,
                 archivePath, promise, stdout, stderr, ps, listeners, cleanups,
                 settles, sizePending>>

\* process.exit(e.exitCode || 1). Given a string that is no integer, node
\* either exits with 0 or throws in the catch callback, which ends the process
\* with 1, depending on its version.
ExitStatuses(exitCode) ==
  IF exitCode.t = "number" /\ exitCode.n # 0 THEN {exitCode.n}
  ELSE IF exitCode.t = "string" /\ exitCode.s # "" THEN {0, 1}
  ELSE {1}

\* .catch((e) => { if (!e.silent) console.error(...); process.exit(...) })
MainCatch ==
  /\ ~input.api
  /\ process.alive
  /\ promise.state = "rejected"
  /\ stderr' = IF ~promise.silent
               THEN Append(stderr, IF promise.nccError THEN "e.message" ELSE "e")
               ELSE stderr
  /\ \E status \in ExitStatuses(promise.exitCode) :
       process' = [alive |-> FALSE, exitCode |-> status, signal |-> ""]
  /\ UNCHANGED <<input, pc, fs, outDir, run, nccConfig, nccInvoked, archive,
                 archivePath, promise, stdout, ps, listeners, cleanups, settles,
                 sizePending>>

Next ==
  \/ RunCmd
  \/ FolderSizeCallback
  \/ BundlerRejects
  \/ Handler
  \/ OutputClose
  \/ OutputError
  \/ ChildExit
  \/ Signal
  \/ MainThen
  \/ MainCatch

Spec == Init /\ [][Next]_vars

\* ------------------------------------------------------- config resolution
\* getConfig(cwd, configPath) on its own: the working directory holds up to
\* three JSON files, each naming a license file of its own, and the caller
\* passes a path or none.
ConfigFileNames == {"custom.json", "ncc.config.json", "package.json"}

ConfigOf(license) == [license |-> Some(license), quiet |-> Undefined]

CustomJson == JsonFile([license |-> Some(<<"c">>), ncc |-> Undefined])
NccConfigJson == JsonFile([license |-> Some(<<"a">>), ncc |-> Undefined])
PackageJsonPlain == JsonFile(EmptyJson)
PackageJsonWithNcc ==
  JsonFile([license |-> Undefined, ncc |-> Some(ConfigOf(<<"p">>))])

ConfigDirs ==
  {[f \in ConfigFileNames |->
      IF f = "custom.json" THEN custom
      ELSE IF f = "ncc.config.json" THEN conventional ELSE manifest] :
     custom \in {MissingFile, UnparsableFile, CustomJson},
     conventional \in {MissingFile, UnparsableFile, NccConfigJson},
     manifest \in {MissingFile, UnparsableFile, PackageJsonPlain,
                   PackageJsonWithNcc}}

ConfigInputs ==
  [files : ConfigDirs, configPath : {Undefined, Some("custom.json")}]

\* Every variable at its value before runCmd, with the input drawn from
\* inputs and the position at.
InitAt(inputs, at) ==
  /\ input \in inputs
  /\ pc = at
  /\ fs = {}
  /\ outDir = Undefined
  /\ run = FALSE
  /\ nccConfig = EmptyConfig
  /\ nccInvoked = FALSE
  /\ archive = <<>>
  /\ archivePath = <<>>
  /\ promise = Pending
  /\ process = [alive |-> TRUE, exitCode |-> 0, signal |-> ""]
  /\ stdout = <<>>
  /\ stderr = <<>>
  /\ ps = NoChild
  /\ listeners = {}
  /\ cleanups = 0
  /\ settles = 0
  /\ sizePending = FALSE

ConfigInit == InitAt(ConfigInputs, "getConfig")

\* One call of getConfig: nccConfig takes what it returns, and a throw leaves
\* its message in stderr.
GetConfig ==
  /\ pc = "getConfig"
  /\ LET r == getConfig(input.files, input.configPath)
     IN /\ nccConfig' = r.config
        /\ stderr' = IF r.error = "" THEN stderr ELSE Append(stderr, r.error)
        /\ promise' = IF r.error = "" THEN Resolved ELSE Thrown
  /\ pc' = "resolved"
  /\ UNCHANGED <<input, fs, outDir, run, nccInvoked, archive, archivePath,
                 process, stdout, ps, listeners, cleanups, settles, sizePending>>

ConfigNext == GetConfig

SpecConfig == ConfigInit /\ [][ConfigNext]_vars

\* ----------------------------------------------------------- renderSummary
\* renderSummary(code, map, assets, ext, outDir, buildTime) on its own. Code,
\* map and assets are given by their byte lengths; a row of the output is its
\* size in kB and what it names, and the last row is the total line.
ByteSizes == {256 * k : k \in 0..MaxQuarterKb}

\* Math.round(bytes / 1024)
Kb(bytes) == (bytes + 512) \div 1024

RECURSIVE Sum(_)
Sum(sizes) == IF sizes = <<>> THEN 0 ELSE Head(sizes) + Sum(Tail(sizes))

\* A map is a non-empty string when there is one.
SummaryInputs ==
  [code : ByteSizes,
   map : {Undefined} \cup {Some(bytes) : bytes \in ByteSizes \ {0}},
   assets : SeqsUpTo(ByteSizes, MaxSummaryAssets)]

\* Object.keys(assets).sort((a, b) => assetSizes[a] > assetSizes[b] ? 1 : -1):
\* the keys in an order of non-decreasing size; the comparator never answers 0,
\* which leaves the order of keys of equal size to the engine.
orderedAssets(assetSizes) ==
  {order \in [1..Len(assetSizes) -> 1..Len(assetSizes)] :
     /\ Injective(order)
     /\ \A i \in 1..(Len(order) - 1) :
          assetSizes[order[i]] <= assetSizes[order[i + 1]]}

Row(kind, key, size) == [kind |-> kind, key |-> key, size |-> size]

\* The loop over orderedAssets and the two appends after it; indexRender and
\* indexMapRender say whether the code row and the map row are still to come.
RECURSIVE output(_, _, _, _, _, _)
output(order, assetSizes, codeSize, mapSize, indexRender, indexMapRender) ==
  IF order = <<>>
  THEN (IF indexRender THEN <<Row("code", 0, codeSize)>> ELSE <<>>)
       \o (IF indexMapRender THEN <<Row("map", 0, mapSize)>> ELSE <<>>)
  ELSE LET asset == Head(order)
           putIndex == codeSize < assetSizes[asset] /\ indexRender
           putMap == mapSize # 0 /\ mapSize < assetSizes[asset] /\ indexMapRender
       IN (IF putIndex THEN <<Row("code", 0, codeSize)>> ELSE <<>>)
          \o (IF putMap THEN <<Row("map", 0, mapSize)>> ELSE <<>>)
          \o <<Row("asset", asset, assetSizes[asset])>>
          \o output(Tail(order), assetSizes, codeSize, mapSize,
                    indexRender /\ ~putIndex, indexMapRender /\ ~putMap)

renderSummary(code, map, assets, order) ==
  LET codeSize == Kb(code)
      mapSize == IF map # Undefined THEN Kb(map[1]) ELSE 0
      assetSizes == [i \in 1..Len(assets) |-> Kb(assets[i])]
      totalSize == codeSize + Sum(assetSizes)
  IN output(order, assetSizes, codeSize, mapSize, TRUE, map # Undefined)
     \o <<Row("total", 0, totalSize)>>

SummaryInit == InitAt(SummaryInputs, "renderSummary")

\* One call of renderSummary, its output written to stdout.
RenderSummary ==
  /\ pc = "renderSummary"
  /\ \E order \in orderedAssets([i \in 1..Len(input.assets) |->
                                    Kb(input.assets[i])]) :
       stdout' = renderSummary(input.code, input.map, input.assets, order)
  /\ pc' = "rendered"
  /\ UNCHANGED <<input, fs, outDir, run, nccConfig, nccInvoked, archive,
                 archivePath, promise, process, stderr, ps, listeners, cleanups,
                 settles, sizePending>>

SummaryNext == RenderSummary

SpecSummary == SummaryInit /\ [][SummaryNext]_vars

\* ------------------------------------------------------------------ claims
Assets == {input.result.assets[i] : i \in 1..Len(input.result.assets)}

InArchive(asset) ==
  \E k \in 1..Len(archive) : archive[k].kind = "asset" /\ archive[k].name = asset

MatchesSome(asset) ==
  \E pattern \in input.argv.ignore[1] : minimatch(asset, pattern)

\* The license filename of the effective config: --license over the file's.
LicenseFile == nccConfig.license

RunWorkspace ==
  Workspace(IF Len(input.argv.pos) >= 2 THEN input.argv.pos[2] ELSE ".")

\* C1: with no --ignore given, every asset of the build result is appended to
\* the archive, except the asset named as the license file.
C1_AllPackedWithoutIgnore ==
  (archive # <<>> /\ input.argv.ignore = Undefined) =>
    \A asset \in Assets : Some(asset) # LicenseFile => InArchive(asset)

\* C2: with a non-empty ignore set, an asset other than the license file is
\* appended to the archive exactly when none of the patterns matches it.
C2_PackedIffNoPatternMatches ==
  (archive # <<>> /\ input.argv.ignore # Undefined) =>
    \A asset \in Assets :
      Some(asset) # LicenseFile => (InArchive(asset) <=> ~MatchesSome(asset))

C2_Witness ==
  /\ archive # <<>>
  /\ input.argv.ignore # Undefined
  /\ Cardinality(input.argv.ignore[1]) = 2
  /\ \E asset \in Assets : Some(asset) # LicenseFile /\ InArchive(asset)
  /\ \E asset \in Assets :
       Some(asset) # LicenseFile /\ MatchesSome(asset) /\ ~InArchive(asset)

\* C3: whatever the order of child exit, SIGINT and SIGTERM, exit cleans the
\* staging directory up at most once and settles the run at most once.
C3_CleanupAndSettleOnce == cleanups <= 1 /\ settles <= 1

\* C4: a stale workspace is gone before the run starts, and once the run has
\* settled the workspace keyed by the entry path does not exist.
C4_WorkspaceGoneAfterRun ==
  /\ (run /\ pc = "bundling") => ~existsSync(fs, RunWorkspace)
  /\ (run /\ ps.state # "none" /\ promise.state # "pending") =>
       ~existsSync(fs, RunWorkspace)

\* C5: the file that is forked exists when it is forked and lies inside the
\* workspace of this run.
C5_ForkedEntryIsStaged ==
  ps.state # "none" => ps.found /\ IsPrefix(RunWorkspace, ps.path)

\* The process that a child's code c rejected exits with c, stderr untouched.
C6_ExitCodeIsChilds ==
  (/\ ~input.api /\ ~process.alive
   /\ ps.state = "exited" /\ ps.exitCode.t = "number"
   /\ promise.state = "rejected" /\ promise.exitCode = ps.exitCode) =>
    process.exitCode = ps.exitCode.n /\ stderr = <<>>

\* The step in which the child's exit finds the run pending.
C6_ChildExitSettles ==
  (ps.state = "running" /\ ps'.state = "exited" /\ promise.state = "pending") =>
    /\ ps'.exitCode = Num(0) => promise'.state = "resolved"
    /\ (ps'.exitCode.t = "number" /\ ps'.exitCode.n # 0) =>
         /\ promise'.state = "rejected"
         /\ promise'.silent
         /\ promise'.exitCode = ps'.exitCode

\* C6: a child exit that finds the run pending resolves it on code 0 and
\* rejects it, silent and carrying c, on a code c other than 0; the process
\* then exits with c and prints nothing to stderr.
C6_RunOutcomeIsChilds == []C6_ExitCodeIsChilds /\ [][C6_ChildExitSettles]_vars

C6_Witness ==
  /\ ~input.api /\ ~process.alive
  /\ ps.state = "exited" /\ ps.exitCode = Num(2)
  /\ promise.state = "rejected" /\ promise.exitCode = Num(2)
  /\ process.exitCode = 2

\* C7: the code entry is the first call on the archive, every asset entry and
\* every symlink of the build result comes after it, and finalize is the last
\* call, made once.
C7_CodeFirstFinalizeLast ==
  archive # <<>> =>
    /\ archive[1].kind = "code"
    /\ \A k \in 2..Len(archive) : archive[k].kind # "code"
    /\ archive[Len(archive)].op = "finalize"
    /\ \A k \in 1..(Len(archive) - 1) : archive[k].op # "finalize"
    /\ Cardinality({k \in 1..Len(archive) : archive[k].op = "symlink"})
         = input.result.symlinks

C7_Witness ==
  /\ Len(archive) >= 4
  /\ \E k \in 1..Len(archive) : archive[k].kind = "asset"
  /\ \E k \in 1..Len(archive) : archive[k].op = "symlink"

\* C8: the main entry has mode 0o777 when the code begins with #!, and 0o666
\* otherwise.
C8_ModeFollowsShebang ==
  archive # <<>> =>
    LET code == input.result.code
    IN archive[1].mode =
         IF Len(code) >= 2 /\ SubSeq(code, 1, 2) = <<"#", "!">> THEN 511 ELSE 438

C8_Witness ==
  /\ archive # <<>>
  /\ input.result.code = <<"#", "!">>
  /\ archive[1].mode = 511

\* C9: an asset named as the license file of the effective config is written
\* to the side directory and is not appended to the archive.
C9_LicenseBesideArchive ==
  pc = "assembling" =>
    \A asset \in Assets :
      Some(asset) = LicenseFile =>
        existsSync(fs, Dist \o <<asset>>) /\ ~InArchive(asset)

\* The command lines the dispatcher is to refuse: no or an unknown command,
\* too many positionals, --out or --watch with run, a flag with cache, help.
UsageError(argv) ==
  \/ argv.pos = <<>>
  \/ argv.pos # <<>> /\ argv.pos[1] \notin {"build", "run", "cache", "help", "version"}
  \/ argv.pos # <<>> /\ argv.pos[1] \in {"build", "run", "cache"} /\ Len(argv.pos) > 2
  \/ argv.pos # <<>> /\ argv.pos[1] = "run" /\ (argv.out # Undefined \/ argv.watch)
  \/ argv.pos # <<>> /\ argv.pos[1] = "cache" /\ (Flags(argv) # {} \/ argv.watch)
  \/ argv.pos # <<>> /\ argv.pos[1] = "help"

\* C10: a usage error rejects with exit code 2, calls no bundler and leaves
\* the file system as it was.
C10_UsageErrorsExitTwo ==
  (pc # "start" /\ UsageError(input.argv)) =>
    /\ promise = nccError(2)
    /\ ~nccInvoked
    /\ fs = input.fs
    /\ (~input.api /\ ~process.alive) => process.exitCode = 2

\* A source is available when its file exists and parses, and for package.json
\* when it also holds an ncc block.
Available(f) ==
  /\ input.files[f].state = "ok"
  /\ f = "package.json" => input.files[f].json.ncc # Undefined

\* C11: the config getConfig returns comes from exactly one source, the first
\* available of: the explicit path, ncc.config.json, the ncc block of
\* package.json, the empty mapping; no value of a lower source shows in it.
C11_FirstAvailableSource ==
  (pc = "resolved" /\ promise.state = "resolved") =>
    nccConfig =
      IF input.configPath # Undefined THEN ConfigOf(<<"c">>)
      ELSE IF Available("ncc.config.json") THEN ConfigOf(<<"a">>)
      ELSE IF Available("package.json") THEN ConfigOf(<<"p">>)
      ELSE EmptyConfig

\* ncc.config.json and the ncc block are both there, and the result is the
\* former's.
C11_Witness ==
  /\ pc = "resolved"
  /\ input.configPath = Undefined
  /\ Available("ncc.config.json")
  /\ Available("package.json")
  /\ nccConfig = ConfigOf(<<"a">>)

\* The files getConfig reads: the explicit one when a path is given, else
\* ncc.config.json, and package.json when ncc.config.json gave no config.
Found(f) ==
  /\ input.files[f].state # "missing"
  /\ IF input.configPath # Undefined THEN f = input.configPath[1]
     ELSE \/ f = "ncc.config.json"
          \/ f = "package.json" /\ input.files["ncc.config.json"].state # "ok"

\* C12: getConfig returns the empty mapping without a throw when there is no
\* config anywhere, throws not-found for an explicit path that does not
\* exist, and throws a parse error whenever a file it found does not parse.
C12_ThrowsExactlyOnBadConfig ==
  pc = "resolved" =>
    /\ (input.configPath = Undefined
          /\ \A f \in ConfigFileNames : input.files[f].state = "missing")
         => (promise.state = "resolved" /\ nccConfig = EmptyConfig)
    /\ (input.configPath # Undefined
          /\ input.files[input.configPath[1]].state = "missing")
         => stderr = <<"Could not find config">>
    /\ (\E f \in ConfigFileNames :
           Found(f) /\ input.files[f].state = "unparsable")
         => stderr = <<"Error parsing config">>

\* C13: cache size on a cache directory that does not exist writes 0.00MB,
\* and cache clean on a cache directory that does not exist does not throw.
C13_MissingCacheDir ==
  ~existsSync(input.fs, CacheDir) =>
    /\ (Dispatch(input.argv) = "size" /\ pc = "returned" /\ ~sizePending)
         => stdout = <<"0.00MB">>
    /\ (Dispatch(input.argv) = "clean" /\ pc = "returned")
         => promise.state = "resolved"

\* C20: as a direct command, cache size has written its size line, or the
\* zero line, to stdout by the time the process exits.
C20_SizeLineBeforeExit ==
  (~input.api /\ Dispatch(input.argv) = "size" /\ ~process.alive) =>
    (~sizePending /\ Len(stdout) = 1)

\* The rows of the summary above its total line, and the total line.
SummaryRows == SubSeq(stdout, 1, Len(stdout) - 1)
TotalLine == stdout[Len(stdout)]

\* C14: the total on the summary's last line is the sum of the rounded kB
\* sizes of all rows printed: main code, source map if present, every asset.
C14_TotalIsSumOfRows ==
  pc = "rendered" =>
    TotalLine.size = Sum([i \in 1..Len(SummaryRows) |-> SummaryRows[i].size])

\* The row of the given kind stands after every asset row that is not larger
\* than it and before every asset row that is.
PlacedBeforeFirstLarger(kind) ==
  \A i, j \in 1..Len(SummaryRows) :
    (SummaryRows[i].kind = kind /\ SummaryRows[j].kind = "asset") =>
      (j < i <=> SummaryRows[j].size <= SummaryRows[i].size)

\* C15: the rows of the summary appear in non-decreasing order of rounded
\* size, the code row and the map row each before the first asset row larger
\* than it, or after all asset rows when none is.
C15_RowsInSizeOrder ==
  pc = "rendered" =>
    /\ \A i \in 1..(Len(SummaryRows) - 1) :
         SummaryRows[i].size <= SummaryRows[i + 1].size
    /\ PlacedBeforeFirstLarger("code")
    /\ PlacedBeforeFirstLarger("map")

\* What handler does after the await: the summary, the stats file, the fork.
SummaryWritten == \E i \in 1..Len(stdout) : stdout[i] = "summary"
StatsWritten ==
  input.argv.statsOut # Undefined /\ Rel(<<input.argv.statsOut[1]>>) \in fs
Reported == SummaryWritten \/ StatsWritten \/ ps.state # "none"

\* The pass is over and the archive file was never completed: outputFile
\* emitted error.
StreamFailed ==
  pc \in {"returned", "running"} /\ archive # <<>> /\ archivePath \notin fs

\* C16: when the output stream emits error the operation rejects and writes
\* no summary and no stats file and forks no child; those come only after the
\* stream's close.
C16_NothingReportedWithoutClose ==
  /\ pc = "assembling" => ~Reported
  /\ StreamFailed => (promise.state = "rejected" /\ ~Reported)

\* The stream failed in a pass that would have written a summary and a stats
\* file.
C16_Witness ==
  /\ StreamFailed
  /\ input.argv.quiet = Undefined
  /\ input.argv.statsOut # Undefined

\* A build that asks for watch mode and names an entry file that resolves.
WatchRequested ==
  /\ input.argv.watch
  /\ Len(input.argv.pos) = 2
  /\ input.argv.pos[1] = "build"
  /\ requireResolve(input.argv.pos[2])

\* C17: in watch mode a rebuild result that carries an error is reported and
\* leaves no archive and no side file, and watching continues: the invocation
\* does not end with it, and later results are still assembled.
C17_WatchingContinues ==
  (WatchRequested /\ pc # "start") =>
    (nccInvoked /\ promise.state # "rejected" /\ process.alive)

\* The side directory the claim names, and the map file in it.
SideDir == IF run THEN RunWorkspace ELSE Dist
MapFile ==
  SideDir \o << <<FileName(input.argv), Ext(input.argv.pos[2]), ".map">> >>

\* C18: a source map is written as <stem><ext>.map, the stem being --filename
\* or index, inside dist/ in build mode and inside the run workspace in run
\* mode, and is never appended to the archive.
C18_MapBesideArchive ==
  (pc = "assembling" /\ input.result.map) =>
    /\ MapFile \in fs
    /\ \A k \in 1..Len(archive) :
         archive[k].op = "append" => archive[k].kind \in {"code", "asset"}

\* C19: every successful assembly pass of an invocation writes its archive
\* to one target path, the --out value or dist.zip when none was given, and
\* never to the side directory's path.
C19_OneArchiveTarget ==
  (archivePath # <<>> /\ archivePath \in fs /\ pc # "assembling") =>
    /\ archivePath = IF OutGiven(input.argv)
                     THEN Rel(<<input.argv.out[1]>>) ELSE DefaultArchive
    /\ archivePath # Dist

====
